---- MODULE Spec2Model ----
(***************************************************************************)
(* A model of homeassistant/components/blueprint/models.py: the Blueprint  *)
(* constructor, BlueprintInputs.validate and the DomainBlueprints registry *)
(* (cache _blueprints, asyncio lock _load_lock, executor jobs on disk).    *)
(*                                                                         *)
(* Coroutines run on one event loop: the code between two awaits is one    *)
(* atomic step.  An executor job runs in a worker thread, so each access   *)
(* it makes to the disk or to the cache is a step of its own.              *)
(***************************************************************************)
EXTENDS Integers, Sequences, FiniteSets, TLC

\* ------------------------------------------------------------------ bounds
NumTasks == 2
MaxResets == 1
MaxCalls == 3

Tasks == 1..NumTasks

\* ------------------------------------------------------------------- paths
\* A relative path is the sequence of its pieces: <<"a">> is "a" and
\* <<"a", ".yaml">> is "a.yaml".
Stems == {"a"}
YamlExt == ".yaml"
Paths == {<<s>> : s \in Stems} \cup {<<s, YamlExt>> : s \in Stems}
NoPath == <<>>
\* The paths a caller names a stored blueprint by.
YamlPaths == {<<s, YamlExt>> : s \in Stems}

\* str.endswith(".yaml")
EndsWithYaml(p) == Len(p) > 0 /\ p[Len(p)] = YamlExt

\* ---------------------------------------------------------------- documents
\* A document is what yaml.load_yaml returns: whether it passes
\* BLUEPRINT_SCHEMA, its blueprint.domain, blueprint.name, the names under
\* blueprint.input and the placeholders its body refers to.
RegistryDomain == "automation"
NoDomain == "NoDomain"

Doc(ok, dom, nm, inp, body) ==
    [schemaOk |-> ok, domain |-> dom, name |-> nm, input |-> inp, body |-> body]

DocA == Doc(TRUE, "automation", "A", {"x"}, {"x"})
DocScript == Doc(TRUE, "script", "S", {"x"}, {"x"})

\* ------------------------------------------------------------------- values
None == [kind |-> "None"]
Error(exc) == [kind |-> "Error", exc |-> exc]
IsError(v) == v.kind = "Error"
IsBlueprint(v) == v.kind = "Blueprint"

\* Files on disk.
NoFile == [kind |-> "NoFile"]
Garbage == [kind |-> "Garbage"]
YamlFile(data) == [kind |-> "Yaml", data |-> data]

\* How a call ended.
NoResult == [kind |-> "none"]
Returned(v, how) == [kind |-> "return", val |-> v, how |-> how]
Raised(exc, how) == [kind |-> "raise", val |-> Error(exc), how |-> how]


\* --------------------------------------------------------------- Blueprint
\* Blueprint.__init__ without the check of lines 68-76.
BlueprintInitNoMissingCheck(data, expected_domain, born) ==
    IF ~data.schemaOk
    THEN Error("InvalidBlueprint")
    ELSE IF expected_domain # NoDomain /\ data.domain # expected_domain
    THEN Error("InvalidBlueprint")
    ELSE [kind |-> "Blueprint", data |-> data, domain |-> data.domain,
          placeholders |-> data.body, born |-> born]

\* Blueprint.__init__ taking the expected domain in place of a mismatch.
BlueprintInitCoerceDomain(data, expected_domain, born) ==
    IF ~data.schemaOk
    THEN Error("InvalidBlueprint")
    ELSE IF data.body \ data.input # {}
    THEN Error("InvalidBlueprint")
    ELSE [kind |-> "Blueprint", data |-> data,
          domain |-> IF expected_domain # NoDomain
                     THEN expected_domain ELSE data.domain,
          placeholders |-> data.body, born |-> born]

\* Blueprint.__init__(data, path=..., expected_domain=...): the object, or
\* the InvalidBlueprint it raises.  born is the number of cache resets
\* before the object was made (a history field, not a field of the code).
BlueprintInit(data, expected_domain, born) ==
    IF ~data.schemaOk
    THEN Error("InvalidBlueprint")
    ELSE IF expected_domain # NoDomain /\ data.domain # expected_domain
    THEN Error("InvalidBlueprint")
    ELSE IF data.body \ data.input # {}
    THEN Error("InvalidBlueprint")
    ELSE [kind |-> "Blueprint", data |-> data, domain |-> data.domain,
          placeholders |-> data.body, born |-> born]

\* Blueprint.yaml(): the text written to the file.
BlueprintYaml(bp) == YamlFile(bp.data)

\* BlueprintInputs.validate(): the exception it raises, or "ok".  A blueprint
\* that is None has no attribute placeholders.
InputsValidate(bp, inputs) ==
    IF ~IsBlueprint(bp)
    THEN "AttributeError"
    ELSE IF bp.placeholders \ inputs # {}
    THEN "MissingPlaceholder"
    ELSE "ok"

BlueprintInputs(bp, inputs) ==
    [kind |-> "BlueprintInputs", blueprint |-> bp, inputs |-> inputs]

\* A version is <<major, minor>>; parse_version(a) < parse_version(b).
NoVersion == <<>>
VersionLess(a, b) == a[1] < b[1] \/ (a[1] = b[1] /\ a[2] < b[2])

\* dicts
EmptyDict == [k \in {} |-> None]
Merge(a, b) ==
    [k \in DOMAIN a \cup DOMAIN b |-> IF k \in DOMAIN b THEN b[k] ELSE a[k]]
Pop(d, k) == [j \in DOMAIN d \ {k} |-> d[j]]

CONF_HOMEASSISTANT == "homeassistant"
CONF_MIN_VERSION == "min_version"

\* metadata.get(CONF_HOMEASSISTANT, {}).get(CONF_MIN_VERSION)
MinVersion(metadata) ==
    IF CONF_HOMEASSISTANT \notin DOMAIN metadata
    THEN NoVersion
    ELSE IF CONF_MIN_VERSION \notin DOMAIN metadata[CONF_HOMEASSISTANT]
    THEN NoVersion
    ELSE metadata[CONF_HOMEASSISTANT][CONF_MIN_VERSION]

\* The error of line 110.
Requires(v) == [text |-> "Requires at least Home Assistant", version |-> v]

\* Blueprint.validate() on a Blueprint with this metadata, with __version__ =
\* running: what it returns (None, or the list of errors) and the metadata as
\* it is afterwards.
BlueprintValidateStrict(metadata, running) ==
    LET min_version == MinVersion(metadata)
        errors == IF min_version # NoVersion
                     /\ ~VersionLess(min_version, running)
                  THEN <<Requires(min_version)>>
                  ELSE <<>>
    IN  [out |-> IF errors # <<>> THEN [kind |-> "List", items |-> errors]
                 ELSE None,
         metadata |-> metadata]
BlueprintValidate(metadata, running) ==
    LET min_version == MinVersion(metadata)
        errors == IF min_version # NoVersion
                     /\ VersionLess(running, min_version)
                  THEN <<Requires(min_version)>>
                  ELSE <<>>
    IN  [out |-> IF errors # <<>> THEN [kind |-> "List", items |-> errors]
                 ELSE None,
         metadata |-> metadata]

\* ------------------------------------------------------------ substitution
\* For substitution a document is a dict from its top-level keys to values: a
\* literal, a placeholder (!input name), or a section (blueprint metadata,
\* use_blueprint).
CONF_BLUEPRINT == "blueprint"
CONF_USE_BLUEPRINT == "use_blueprint"
Lit(v) == [kind |-> "lit", v |-> v]
Input(n) == [kind |-> "input", name |-> n]
MetaSection == [kind |-> "meta"]
UseSection(inputs) == [kind |-> "use", input |-> inputs]

\* placeholder.extract_placeholders(data)
ExtractPlaceholders(data) ==
    {data[k].name : k \in {j \in DOMAIN data : data[j].kind = "input"}}

\* placeholder.substitute(data, inputs): a new dict; the error when a
\* placeholder has no value.
Substitute(data, inputs) ==
    IF ExtractPlaceholders(data) \ DOMAIN inputs # {}
    THEN Error("UndefinedPlaceholder")
    ELSE [kind |-> "Dict",
          dict |-> [k \in DOMAIN data |->
                       IF data[k].kind = "input"
                       THEN inputs[data[k].name]
                       ELSE data[k]]]

\* BlueprintInputs.async_substitute() on blueprint.data = data and
\* config_with_inputs = config: what it returns or raises, and the two dicts
\* as they are afterwards.
AsyncSubstituteConfigWins(data, config) ==
    LET processed == Substitute(data, config[CONF_USE_BLUEPRINT].input)
    IN  IF IsError(processed)
        THEN [out |-> processed, data |-> data, config |-> config]
        ELSE [out |-> [kind |-> "Dict",
                       dict |-> Pop(Pop(Merge(processed.dict, config),
                                        CONF_USE_BLUEPRINT), CONF_BLUEPRINT)],
              data |-> data, config |-> config]
AsyncSubstitute(data, config) ==
    LET processed == Substitute(data, config[CONF_USE_BLUEPRINT].input)
    IN  IF IsError(processed)
        THEN [out |-> processed, data |-> data, config |-> config]
        ELSE [out |-> [kind |-> "Dict",
                       dict |-> Pop(Pop(Merge(config, processed.dict),
                                        CONF_USE_BLUEPRINT), CONF_BLUEPRINT)],
              data |-> data, config |-> config]

\* ------------------------------------------------------------------- cache
\* self._blueprints: a dict from path to Blueprint or None.
EmptyCache == [q \in {} |-> None]
Put(c, p, v) == [q \in DOMAIN c \cup {p} |-> IF q = p THEN v ELSE c[q]]
\* dict.get(p)
CacheGet(c, p) == IF p \in DOMAIN c THEN c[p] ELSE None

\* -------------------------------------------------------------------- disk
\* DomainBlueprints._load_blueprint(blueprint_path), run against disk d.
LoadBlueprint(d, p, born) ==
    IF d[p].kind = "NoFile"
    THEN Error("FailedToLoad")
    ELSE IF d[p].kind = "Garbage"
    THEN Error("FailedToLoad")
    ELSE BlueprintInit(d[p].data, RegistryDomain, born)

\* blueprint_folder.glob("**/*.yaml")
Glob(d) == {p \in Paths : EndsWithYaml(p) /\ d[p].kind # "NoFile"}

\* async_add_blueprint: the path the file is created at.
AddTargetAsGiven(p) == p
AddTarget(p) == IF ~EndsWithYaml(p) THEN Append(p, YamlExt) ELSE p

\* async_get_blueprint, slow path: the cache after the load ended with v.
CacheAfterLoadNoMark(c, p, v) == IF IsError(v) THEN c ELSE Put(c, p, v)
CacheAfterLoad(c, p, v) == IF IsError(v) THEN Put(c, p, None) ELSE Put(c, p, v)

\* async_remove_blueprint: the cache after the file was unlinked.
CacheAfterRemoveEvict(c, p) == [q \in DOMAIN c \ {p} |-> c[q]]
CacheAfterRemove(c, p) == Put(c, p, None)

\* async_get_blueprint run alone from cache c and disk d: what it returns.
GetOneAlone(c, d, p, born) ==
    IF p \in DOMAIN c
    THEN Returned(c[p], "fast")
    ELSE LET v == LoadBlueprint(d, p, born)
         IN  IF IsError(v) THEN Raised(v.exc, "load") ELSE Returned(v, "load")


\* ------------------------------------------------------------------ deCONZ
NumEntities == 2
Entities == 1..NumEntities
\* pydeconz devices; two entities can stand for one device (a sensor and its
\* battery level).
Devices == {"d1", "d2"}
\* DeconzDevice.TYPE of the subclasses
Types == {"sensor", "light"}

\* DeconzBase.unique_id, Entity.entity_id, device.deconz_id
UniqueId(e) == <<"uniqueid", e>>
EntityId(e) == <<"entity_id", e>>
DeconzId(d) == <<"deconz_id", d>>

\* The gateway and the devices before any entity is constructed: dev and type
\* give each entity's _device and TYPE; callbacks is each device's list of
\* registered callbacks (the bound async_update_callback of entity e is e).
DeconzStart(dev, type, ignore) ==
    [dev |-> dev, type |-> type,
     ignore_state_updates |-> ignore,
     stage |-> [e \in Entities |-> "none"],
     callbacks |-> [d \in Devices |-> <<>>],
     deconz_ids |-> [i \in {} |-> <<>>],
     entities |-> [y \in Types |-> {}],
     on_remove |-> [e \in Entities |-> {}],
     last |-> [e \in Entities |-> "none"]]
NoEntities ==
    DeconzStart([e \in Entities |-> "d1"], [e \in Entities |-> "sensor"], FALSE)

\* ------------------------------------------------------------------- state
VARIABLES
    disk,      \* the files of the domain's blueprint folder, by relative path
    cache,     \* DomainBlueprints._blueprints
    queue,     \* DomainBlueprints._load_lock: its holder, then its waiters
    pc,        \* where each task's coroutine (or its executor job) stands
    op,        \* the operation each task runs
    arg,       \* the arguments of the call
    loc,       \* the local variables of the call
    result,    \* how the call ended
    resets,    \* history: the number of async_reset_cache calls so far
    started,   \* history: resets when the task's call began
    removed,   \* history: paths removed and not added since
    calls,     \* the number of calls begun
    pure,      \* a method of Blueprint or BlueprintInputs applied to an input
    deconz     \* the deCONZ devices and their gateway (deconz_device.py)

vars == <<disk, cache, queue, pc, op, arg, loc, result, resets, started,
          removed, calls, pure, deconz>>

\* The registry is one of three parts of the model; its steps leave the other
\* two alone.
outside == <<pure, deconz>>
registry == <<disk, cache, queue, pc, op, arg, loc, result, resets, started,
              removed, calls>>

NoArg == [path |-> NoPath, bp |-> None, input |-> {}]
NoLoc == [val |-> None, todo |-> {}, cur |-> NoPath, results |-> EmptyCache]

\* asyncio.Lock: waiters are served first come, first served.
HoldsLockAnyWaiter(t) == \E i \in 1..Len(queue) : queue[i] = t
HoldsLock(t) == queue # <<>> /\ Head(queue) = t
ReleaseNever(q, t) == q
Release(q, t) == SelectSeq(q, LAMBDA u : u # t)

\* The contents a file of the folder can have before the registry starts.
InitFiles == {NoFile, Garbage, YamlFile(DocA)}
\* The documents a caller can hand to async_add_blueprint as a Blueprint.
AddDocs == {DocA, DocScript}
\* The input keys of a use_blueprint section.
InputKeySets == {{}, {"x"}}

\* DomainBlueprints.__init__ over a folder holding the files d.
RegistryStart(d) ==
    /\ disk = d
    /\ cache = EmptyCache
    /\ queue = <<>>
    /\ pc = [t \in Tasks |-> "idle"]
    /\ op = [t \in Tasks |-> "none"]
    /\ arg = [t \in Tasks |-> NoArg]
    /\ loc = [t \in Tasks |-> NoLoc]
    /\ result = [t \in Tasks |-> NoResult]
    /\ resets = 0
    /\ started = [t \in Tasks |-> 0]
    /\ removed = {}
    /\ calls = 0

\* No method applied.
NoPure == [fn |-> "none"]

Init ==
    /\ \E d \in [Paths -> InitFiles] :
          /\ \A p \in Paths : ~EndsWithYaml(p) => d[p] = NoFile
          /\ RegistryStart(d)
    /\ pure = NoPure
    /\ deconz = NoEntities

\* A call begins: the task is in no call and the budget of calls is not used up.
\* Tasks are interchangeable, so the call goes to the first free one.
Begin(t, o, a) ==
    /\ pc[t] = "idle"
    /\ \A u \in Tasks : u < t => pc[u] # "idle"
    /\ calls < MaxCalls
    /\ calls' = calls + 1
    /\ op' = [op EXCEPT ![t] = o]
    /\ arg' = [arg EXCEPT ![t] = a]
    /\ started' = [started EXCEPT ![t] = resets]
    /\ UNCHANGED outside

\* The call ends with outcome r, which the task keeps until its next call.
End(t, r) ==
    /\ pc' = [pc EXCEPT ![t] = "idle"]
    /\ result' = [result EXCEPT ![t] = r]
    /\ loc' = [loc EXCEPT ![t] = NoLoc]

\* The call goes on at l.
Goto(t, l) ==
    /\ pc' = [pc EXCEPT ![t] = l]
    /\ result' = [result EXCEPT ![t] = NoResult]

\* async_inputs_from_config, lines 254-256, on what async_get_blueprint gave.
InputsTail(outcome, a) ==
    IF outcome.kind = "raise"
    THEN outcome
    ELSE LET v == InputsValidate(outcome.val, a.input)
         IN  IF v = "ok"
             THEN Returned(BlueprintInputs(outcome.val, a.input), outcome.how)
             ELSE Raised(v, outcome.how)

\* What the caller of operation o gets when async_get_blueprint ends.
Complete(o, a, outcome) ==
    IF o = "inputs" THEN InputsTail(outcome, a) ELSE outcome


\* ------------------------------------------------- async_get_blueprint
\* Lines 222-233 up to the first suspension: the fast path, or the lock.  A
\* free lock is taken without suspending, and the second look at the cache
\* then sees what the first one saw, so the job is submitted in the same step.
GetEnterAlwaysLock(t, o, a) ==
    /\ queue' = Append(queue, t)
    /\ Goto(t, IF queue = <<>> THEN "get_load" ELSE "get_wait")
    /\ UNCHANGED loc
GetEnter(t, o, a) ==
    IF a.path \in DOMAIN cache
    THEN /\ End(t, Complete(o, a, Returned(cache[a.path], "fast")))
         /\ UNCHANGED queue
    ELSE /\ queue' = Append(queue, t)
         /\ Goto(t, IF queue = <<>> THEN "get_load" ELSE "get_wait")
         /\ UNCHANGED loc

GetCall(t) ==
    \E p \in Paths :
        /\ Begin(t, "get", [NoArg EXCEPT !.path = p])
        /\ GetEnter(t, "get", [NoArg EXCEPT !.path = p])
        /\ UNCHANGED <<disk, cache, resets, removed>>

\* Lines 225-228: the lock is acquired after a wait; check the cache again.
GetRecheck(t) ==
    /\ pc[t] = "get_wait"
    /\ HoldsLock(t)
    /\ IF arg[t].path \in DOMAIN cache
       THEN /\ End(t, Complete(op[t], arg[t],
                               Returned(cache[arg[t].path], "recheck")))
            /\ queue' = Release(queue, t)
       ELSE /\ Goto(t, "get_load")
            /\ UNCHANGED <<queue, loc>>
    /\ UNCHANGED <<disk, cache, op, arg, resets, started, removed, calls>>
    /\ UNCHANGED outside

\* Lines 231-233: the executor runs _load_blueprint.
GetJob(t) ==
    /\ pc[t] = "get_load"
    /\ loc' = [loc EXCEPT ![t].val = LoadBlueprint(disk, arg[t].path, resets)]
    /\ Goto(t, "get_resume")
    /\ UNCHANGED <<disk, cache, queue, op, arg, resets, started, removed, calls>>
    /\ UNCHANGED outside

\* Lines 234-239: the coroutine resumes, writes the cache, leaves the lock.
GetResume(t) ==
    /\ pc[t] = "get_resume"
    /\ cache' = CacheAfterLoad(cache, arg[t].path, loc[t].val)
    /\ queue' = Release(queue, t)
    /\ End(t, Complete(op[t], arg[t],
                       IF IsError(loc[t].val)
                       THEN Raised(loc[t].val.exc, "load")
                       ELSE Returned(loc[t].val, "load")))
    /\ UNCHANGED <<disk, op, arg, resets, started, removed, calls>>
    /\ UNCHANGED outside

\* --------------------------------------------- async_inputs_from_config
Configs ==
    {[ok |-> FALSE, path |-> NoPath, input |-> {}]}
    \cup {[ok |-> TRUE, path |-> p, input |-> k] : p \in YamlPaths, k \in InputKeySets}

\* Lines 245-253: BLUEPRINT_INSTANCE_FIELDS, then async_get_blueprint.
InputsCall(t) ==
    \E cfg \in Configs :
        LET a == [NoArg EXCEPT !.path = cfg.path, !.input = cfg.input]
        IN  /\ Begin(t, "inputs", a)
            /\ IF ~cfg.ok
               THEN /\ End(t, Raised("InvalidBlueprintInputs", "schema"))
                    /\ UNCHANGED queue
               ELSE GetEnter(t, "inputs", a)
            /\ UNCHANGED <<disk, cache, resets, removed>>

\* ------------------------------------------------ async_get_blueprints
\* Line 217: take the lock, or wait for it.
ScanCall(t) ==
    /\ Begin(t, "list", NoArg)
    /\ queue' = Append(queue, t)
    /\ Goto(t, IF queue = <<>> THEN "scan_glob" ELSE "scan_wait")
    /\ UNCHANGED <<disk, cache, loc, resets, removed>>

ScanAcquire(t) ==
    /\ pc[t] = "scan_wait"
    /\ HoldsLock(t)
    /\ Goto(t, "scan_glob")
    /\ UNCHANGED <<disk, cache, queue, op, arg, loc, resets, started, removed,
                   calls>>
    /\ UNCHANGED outside

\* Line 197: the executor job lists the folder.
ScanGlob(t) ==
    /\ pc[t] = "scan_glob"
    /\ loc' = [loc EXCEPT ![t].todo = Glob(disk)]
    /\ Goto(t, "scan_next")
    /\ UNCHANGED <<disk, cache, queue, op, arg, resets, started, removed, calls>>
    /\ UNCHANGED outside

\* Lines 197-203: the next file of the listing; it is loaded when the cache
\* has no Blueprint for it.  With the listing used up the job returns, the
\* coroutine resumes and leaves the lock (line 218).
ScanNext(t) ==
    /\ pc[t] = "scan_next"
    /\ IF loc[t].todo = {}
       THEN /\ End(t, Returned(loc[t].results, "scan"))
            /\ queue' = Release(queue, t)
       ELSE /\ \E p \in loc[t].todo :
                 IF CacheGet(cache, p) = None
                 THEN /\ loc' = [loc EXCEPT ![t].todo = @ \ {p}, ![t].cur = p,
                                    ![t].val = LoadBlueprint(disk, p, resets)]
                      /\ Goto(t, "scan_store")
                 ELSE /\ loc' = [loc EXCEPT ![t].todo = @ \ {p}, ![t].cur = p]
                      /\ Goto(t, "scan_result")
            /\ UNCHANGED queue
    /\ UNCHANGED <<disk, cache, op, arg, resets, started, removed, calls>>
    /\ UNCHANGED outside

\* Lines 201-207: the job writes the cache.
ScanStore(t) ==
    /\ pc[t] = "scan_store"
    /\ IF IsError(loc[t].val)
       THEN /\ cache' = Put(cache, loc[t].cur, None)
            /\ loc' = [loc EXCEPT ![t].results = Put(@, loc[t].cur, loc[t].val),
                                  ![t].val = None, ![t].cur = NoPath]
            /\ Goto(t, "scan_next")
       ELSE /\ cache' = Put(cache, loc[t].cur, loc[t].val)
            /\ loc' = [loc EXCEPT ![t].val = None]
            /\ Goto(t, "scan_result")
    /\ UNCHANGED <<disk, queue, op, arg, resets, started, removed, calls>>
    /\ UNCHANGED outside

\* Line 209: the job reads the cache again; a key that is gone is a KeyError,
\* which ends the job and the call.
ScanResult(t) ==
    /\ pc[t] = "scan_result"
    /\ IF loc[t].cur \in DOMAIN cache
       THEN /\ loc' = [loc EXCEPT ![t].results = Put(@, loc[t].cur, cache[loc[t].cur]),
                                  ![t].cur = NoPath]
            /\ Goto(t, "scan_next")
            /\ UNCHANGED queue
       ELSE /\ End(t, Raised("KeyError", "scan"))
            /\ queue' = Release(queue, t)
    /\ UNCHANGED <<disk, cache, op, arg, resets, started, removed, calls>>
    /\ UNCHANGED outside


\* -------------------------------------------------- async_add_blueprint
\* Lines 283-288: the path is normalised and _create_file is submitted.
AddCall(t) ==
    \E p \in Paths, d \in AddDocs :
        /\ Begin(t, "add", [NoArg EXCEPT !.path = p,
                                         !.bp = BlueprintInit(d, NoDomain, resets)])
        /\ Goto(t, "add_check")
        /\ removed' = removed \ {AddTarget(p)}
        /\ UNCHANGED <<disk, cache, queue, loc, resets>>

\* Lines 273-274 of _create_file: path.exists().
AddCheck(t) ==
    /\ pc[t] = "add_check"
    /\ IF disk[AddTarget(arg[t].path)].kind # "NoFile"
       THEN End(t, Raised("FileAlreadyExists", "job"))
       ELSE Goto(t, "add_write") /\ UNCHANGED loc
    /\ removed' = removed \ {AddTarget(arg[t].path)}
    /\ UNCHANGED <<disk, cache, queue, op, arg, resets, started, calls>>
    /\ UNCHANGED outside

\* Lines 276-277 of _create_file: path.write_text(blueprint.yaml()).
AddWrite(t) ==
    /\ pc[t] = "add_write"
    /\ disk' = [disk EXCEPT ![AddTarget(arg[t].path)] = BlueprintYaml(arg[t].bp)]
    /\ Goto(t, "add_resume")
    /\ removed' = removed \ {AddTarget(arg[t].path)}
    /\ UNCHANGED <<cache, queue, op, arg, loc, resets, started, calls>>
    /\ UNCHANGED outside

\* Line 290: the coroutine resumes and caches the blueprint.
AddResume(t) ==
    /\ pc[t] = "add_resume"
    /\ cache' = Put(cache, AddTarget(arg[t].path), arg[t].bp)
    /\ End(t, Returned(None, "job"))
    /\ removed' = removed \ {AddTarget(arg[t].path)}
    /\ UNCHANGED <<disk, queue, op, arg, resets, started, calls>>
    /\ UNCHANGED outside

\* ----------------------------------------------- async_remove_blueprint
\* Lines 260-264: path.unlink is submitted.
RemoveCall(t) ==
    \E p \in YamlPaths :
        /\ Begin(t, "remove", [NoArg EXCEPT !.path = p])
        /\ Goto(t, "rm_job")
        /\ UNCHANGED <<disk, cache, queue, loc, resets, removed>>

\* Line 264: the executor unlinks the file; a missing file is a
\* FileNotFoundError, which ends the call before line 265.
RemoveJobAlwaysMark(t) ==
    /\ pc[t] = "rm_job"
    /\ IF disk[arg[t].path].kind = "NoFile"
       THEN /\ End(t, Raised("FileNotFoundError", "job"))
            /\ UNCHANGED disk
       ELSE /\ disk' = [disk EXCEPT ![arg[t].path] = NoFile]
            /\ Goto(t, "rm_resume")
            /\ UNCHANGED loc
    /\ cache' = Put(cache, arg[t].path, None)
    /\ UNCHANGED <<queue, op, arg, resets, started, removed, calls>>
    /\ UNCHANGED outside
RemoveJob(t) ==
    /\ pc[t] = "rm_job"
    /\ IF disk[arg[t].path].kind = "NoFile"
       THEN /\ End(t, Raised("FileNotFoundError", "job"))
            /\ UNCHANGED disk
       ELSE /\ disk' = [disk EXCEPT ![arg[t].path] = NoFile]
            /\ Goto(t, "rm_resume")
            /\ UNCHANGED loc
    /\ UNCHANGED <<cache, queue, op, arg, resets, started, removed, calls>>
    /\ UNCHANGED outside

\* Line 265: the coroutine resumes and marks the path.
RemoveResume(t) ==
    /\ pc[t] = "rm_resume"
    /\ cache' = CacheAfterRemove(cache, arg[t].path)
    /\ End(t, Returned(None, "job"))
    /\ removed' = removed \cup {arg[t].path}
    /\ UNCHANGED <<disk, queue, op, arg, resets, started, calls>>
    /\ UNCHANGED outside

\* ---------------------------------------------------- async_reset_cache
\* Line 175, a callback: it runs in one step.
ResetCache(t) ==
    /\ resets < MaxResets
    /\ Begin(t, "reset", NoArg)
    /\ cache' = EmptyCache
    /\ resets' = resets + 1
    /\ End(t, Returned(None, "sync"))
    /\ UNCHANGED <<disk, queue, removed>>

Next ==
    \E t \in Tasks :
        \/ GetCall(t)
        \/ GetRecheck(t)
        \/ GetJob(t)
        \/ GetResume(t)
        \/ InputsCall(t)
        \/ ScanCall(t)
        \/ ScanAcquire(t)
        \/ ScanGlob(t)
        \/ ScanNext(t)
        \/ ScanStore(t)
        \/ ScanResult(t)
        \/ AddCall(t)
        \/ AddCheck(t)
        \/ AddWrite(t)
        \/ AddResume(t)
        \/ RemoveCall(t)
        \/ RemoveJob(t)
        \/ RemoveResume(t)
        \/ ResetCache(t)

Spec == Init /\ [][Next]_vars

\* The steps that carry on task t's call: an executor job runs to its end, and
\* the event loop resumes a coroutine whose job is done or whose turn at the
\* lock has come.
Continue(t) ==
    \/ GetRecheck(t)
    \/ GetJob(t)
    \/ GetResume(t)
    \/ ScanAcquire(t)
    \/ ScanGlob(t)
    \/ ScanNext(t)
    \/ ScanStore(t)
    \/ ScanResult(t)
    \/ AddCheck(t)
    \/ AddWrite(t)
    \/ AddResume(t)
    \/ RemoveJob(t)
    \/ RemoveResume(t)

\* The registry with executor jobs that terminate and an event loop that runs
\* every coroutine that is ready.
FairSpec == Spec /\ \A t \in Tasks : WF_vars(Continue(t))


\* --------------------------------------- Blueprint and BlueprintInputs
\* The methods that touch no registry are applied to one input each.
NotApplied == [kind |-> "NotApplied"]
Applying(fn, args) == [fn |-> fn, args |-> args, out |-> NotApplied]

\* Blueprint(data, expected_domain=...): the documents and the domains.
PlaceholderNames == {"x", "y"}
DocDomains == {"automation", "script"}
CtorDocs ==
    {Doc(ok, dom, "N", inp, body) :
        ok \in BOOLEAN, dom \in DocDomains,
        inp \in SUBSET PlaceholderNames, body \in SUBSET PlaceholderNames}
ExpectedDomains == {NoDomain} \cup DocDomains
CtorArgs ==
    {[data |-> d, expected_domain |-> e] : d \in CtorDocs, e \in ExpectedDomains}

\* Blueprint.validate(): the metadata and the running version.
Versions == {<<0, 1>>, <<0, 2>>, <<1, 0>>}
Metadatas ==
    {EmptyDict, CONF_HOMEASSISTANT :> EmptyDict}
    \cup {CONF_HOMEASSISTANT :> (CONF_MIN_VERSION :> v) : v \in Versions}
ValidateArgs ==
    {[metadata |-> m, running |-> r] : m \in Metadatas, r \in Versions}

\* BlueprintInputs.async_substitute(): the blueprint's document and the
\* caller's configuration.
BodyKeys == {"action", "alias"}
BodyValues == {Lit("b"), Input("x")}
BlueprintDatas ==
    UNION {{Merge(CONF_BLUEPRINT :> MetaSection, f) : f \in [K -> BodyValues]} :
              K \in SUBSET BodyKeys}
ConfigKeys == {"alias", "id"}
InputDicts == {EmptyDict, "x" :> Lit("v")}
ConfigDicts ==
    UNION {{Merge(CONF_USE_BLUEPRINT :> UseSection(i), [k \in K |-> Lit("c")]) :
               i \in InputDicts} :
              K \in SUBSET ConfigKeys}
SubstituteArgs ==
    {[data |-> d, config |-> c] : d \in BlueprintDatas, c \in ConfigDicts}

InitPure ==
    /\ RegistryStart([p \in Paths |-> NoFile])
    /\ deconz = NoEntities
    /\ \/ \E a \in CtorArgs : pure = Applying("init", a)
       \/ \E a \in ValidateArgs : pure = Applying("validate", a)
       \/ \E a \in SubstituteArgs : pure = Applying("substitute", a)

\* Blueprint.__init__
Construct ==
    /\ pure.fn = "init" /\ pure.out = NotApplied
    /\ pure' = [pure EXCEPT !.out =
                   BlueprintInit(pure.args.data, pure.args.expected_domain, 0)]
    /\ UNCHANGED <<registry, deconz>>

\* Blueprint.validate
Validate ==
    /\ pure.fn = "validate" /\ pure.out = NotApplied
    /\ pure' = [pure EXCEPT !.out =
                   BlueprintValidate(pure.args.metadata, pure.args.running)]
    /\ UNCHANGED <<registry, deconz>>

\* BlueprintInputs.async_substitute
SubstituteCall ==
    /\ pure.fn = "substitute" /\ pure.out = NotApplied
    /\ pure' = [pure EXCEPT !.out =
                   AsyncSubstitute(pure.args.data, pure.args.config)]
    /\ UNCHANGED <<registry, deconz>>

NextPure ==
    \/ Construct
    \/ Validate
    \/ SubstituteCall

SpecPure == InitPure /\ [][NextPure]_vars


\* ------------------------------------------------------------ DeconzDevice
\* list.remove(x) for an x that is in the list: its first occurrence goes.
RemoveFirst(l, x) ==
    LET i == CHOOSE j \in 1..Len(l) :
                 l[j] = x /\ \A k \in 1..(j - 1) : l[k] # x
    IN  [k \in 1..(Len(l) - 1) |-> IF k < i THEN l[k] ELSE l[k + 1]]

InitDeconz ==
    /\ RegistryStart([p \in Paths |-> NoFile])
    /\ pure = NoPure
    /\ \E dev \in [Entities -> Devices], type \in [Entities -> Types],
          ignore \in BOOLEAN :
          deconz = DeconzStart(dev, type, ignore)

\* DeconzDevice.__init__ (lines 55-58)
DeviceInit(e) ==
    /\ deconz.stage[e] = "none"
    /\ deconz' = [deconz EXCEPT
                     !.entities[deconz.type[e]] = @ \cup {UniqueId(e)},
                     !.stage[e] = "constructed"]
    /\ UNCHANGED <<registry, pure>>

\* async_added_to_hass (lines 71-79), called once the entity has its
\* entity_id.
AddedToHass(e) ==
    /\ deconz.stage[e] = "constructed"
    /\ deconz' = [deconz EXCEPT
                     !.callbacks[deconz.dev[e]] = Append(@, e),
                     !.deconz_ids = Merge(@, EntityId(e) :> DeconzId(deconz.dev[e])),
                     !.on_remove[e] = @ \cup {"signal_reachable"},
                     !.stage[e] = "added"]
    /\ UNCHANGED <<registry, pure>>

\* async_will_remove_from_hass that leaves gateway.entities alone.
WillRemoveKeepingEntity(e) ==
    /\ deconz.stage[e] = "added"
    /\ deconz' = [deconz EXCEPT
                     !.callbacks[deconz.dev[e]] = RemoveFirst(@, e),
                     !.deconz_ids = Pop(@, EntityId(e)),
                     !.stage[e] = "removed"]
    /\ UNCHANGED <<registry, pure>>

\* async_will_remove_from_hass (lines 81-85), called on an entity that was
\* added.
WillRemoveFromHass(e) ==
    /\ deconz.stage[e] = "added"
    /\ deconz' = [deconz EXCEPT
                     !.callbacks[deconz.dev[e]] = RemoveFirst(@, e),
                     !.deconz_ids = Pop(@, EntityId(e)),
                     !.entities[deconz.type[e]] = @ \ {UniqueId(e)},
                     !.stage[e] = "removed"]
    /\ UNCHANGED <<registry, pure>>

\* async_update_callback (lines 87-93), called by the device on the
\* callbacks registered with it.
UpdateCallback(e, force_update) ==
    /\ \E i \in 1..Len(deconz.callbacks[deconz.dev[e]]) :
          deconz.callbacks[deconz.dev[e]][i] = e
    /\ deconz' = [deconz EXCEPT
                     !.last[e] = IF ~force_update /\ deconz.ignore_state_updates
                                 THEN "returned"
                                 ELSE "written"]
    /\ UNCHANGED <<registry, pure>>

NextDeconz ==
    \E e \in Entities :
        \/ DeviceInit(e)
        \/ AddedToHass(e)
        \/ WillRemoveFromHass(e)
        \/ \E force_update \in BOOLEAN : UpdateCallback(e, force_update)

SpecDeconz == InitDeconz /\ [][NextDeconz]_vars


\* ------------------------------------------------------------------ claims
\* Task t begins a call in this step.
Began(t) ==
    /\ pc[t] = "idle"
    /\ calls' = calls + 1
    /\ \A u \in Tasks : u < t => pc[u] # "idle"

\* Task t is not in a call and its last call was operation o.
Ended(t, o) == pc[t] = "idle" /\ op[t] = o /\ result[t].kind # "none"

\* The entry of p is cached-failed in cache c.
CachedFailed(c, p) == p \in DOMAIN c /\ c[p] = None

\* The path with ".yaml" appended unless it ends with it.
WithYaml(p) == IF EndsWithYaml(p) THEN p ELSE p \o <<YamlExt>>

\* C1: any two get_one calls on the same path that both missed the cache, with
\* no reset since either began (so the calls overlapped), end the same way, the
\* same value returned or the same error raised, and at most one of them
\* loaded from disk.
C1_ConcurrentGetsSameOutcome ==
    \A t1, t2 \in Tasks :
        ( /\ t1 # t2
          /\ Ended(t1, "get") /\ Ended(t2, "get")
          /\ arg[t1].path = arg[t2].path
          /\ result[t1].how \in {"load", "recheck"}
          /\ result[t2].how \in {"load", "recheck"}
          /\ started[t1] = resets /\ started[t2] = resets )
        => /\ result[t1].kind = result[t2].kind
           /\ result[t1].val = result[t2].val
           /\ ~(result[t1].how = "load" /\ result[t2].how = "load")

\* C2: add never overwrites: when _create_file finds the target occupied the
\* call ends with FileAlreadyExists and changes neither the file nor the
\* cache, and whenever it writes the file the target is not occupied.
C2_AddNeverOverwrites ==
    [][\A t \in Tasks :
          /\ ( /\ pc[t] = "add_check" /\ pc'[t] # pc[t]
               /\ disk[WithYaml(arg[t].path)].kind # "NoFile" )
             => /\ result'[t] = Raised("FileAlreadyExists", "job")
                /\ disk' = disk /\ cache' = cache
          /\ (pc[t] = "add_write" /\ pc'[t] # pc[t])
             => disk[WithYaml(arg[t].path)].kind = "NoFile"]_vars

\* C3: every step that changes the cache is a step of the task that holds
\* the load lock.
C3_CacheMutatedUnderLock ==
    [][cache' # cache =>
          /\ queue # <<>>
          /\ pc'[Head(queue)] # pc[Head(queue)]]_vars

\* Where a task is inside a disk load: from the submission of a get_one load
\* or of a scan to the step that leaves the lock.
LoadingPcs ==
    {"get_load", "get_resume", "scan_glob", "scan_next", "scan_store",
     "scan_result"}

\* C4: at most one task is inside a disk load (the single-path load of
\* get_one, or the scan of list_all) at any time.
C4_OneDiskLoadAtATime ==
    Cardinality({t \in Tasks : pc[t] \in LoadingPcs}) <= 1

\* C4 witness: a get_one waits for the lock while a scan has loaded a file.
C4_Witness ==
    \E t1, t2 \in Tasks : pc[t1] = "scan_store" /\ pc[t2] = "get_wait"


\* The entry of p leaves cached-failed in this step.
LeavesFailed(p) == CachedFailed(cache, p) /\ ~CachedFailed(cache', p)

\* Steps that write the cache, by the operation that takes them.
RemoveStep(t, p) ==
    pc[t] = "rm_resume" /\ pc'[t] # pc[t] /\ arg[t].path = p
ScanLoadStep(t, p) ==
    pc[t] = "scan_store" /\ pc'[t] # pc[t] /\ loc[t].cur = p
GetLoadStep(t, p) ==
    pc[t] = "get_resume" /\ pc'[t] # pc[t] /\ arg[t].path = p
AddStep(t, p) ==
    pc[t] = "add_resume" /\ pc'[t] # pc[t] /\ WithYaml(arg[t].path) = p
ResetStep == resets' = resets + 1

C6_FailedLoadCachedAndNotRetried ==
    [][/\ \A t \in Tasks :
             ( /\ pc[t] = "get_resume" /\ pc'[t] # pc[t]
               /\ IsError(loc[t].val) )
             => /\ CachedFailed(cache', arg[t].path)
                /\ result'[t] = Raised(loc[t].val.exc, "load")
       /\ \A t \in Tasks :
             (pc[t] # "get_load" /\ pc'[t] = "get_load")
             => arg'[t].path \notin DOMAIN cache
       /\ \A p \in Paths :
             (p \in DOMAIN cache /\ p \notin DOMAIN cache') => ResetStep]_vars

\* C6 witness: one get_one failed in its load, and another get_one of the
\* same path got the cached None without loading.
C6_Witness ==
    \E t, u \in Tasks :
        /\ Ended(t, "get") /\ Ended(u, "get")
        /\ arg[t].path = arg[u].path
        /\ result[t].kind = "raise" /\ result[t].how = "load"
        /\ result[u] = Returned(None, "recheck")
        /\ CachedFailed(cache, arg[t].path)

\* What get_one(p), run right after this step with nothing in between,
\* returns the Blueprint bp or one with the same document.
NextGetReturns(p, bp) ==
    LET r == GetOneAlone(cache', disk', p, resets')
    IN  r.kind = "return" /\ IsBlueprint(r.val) /\ r.val.data = bp.data

\* C7, as stated: when add succeeds, get_one with the path argument add was
\* called with returns a Blueprint equivalent to the one added.
C7_AddThenGetSameArgument ==
    [][\A t \in Tasks :
          (pc[t] = "add_resume" /\ pc'[t] # pc[t])
          => NextGetReturns(arg[t].path, arg[t].bp)]_vars

\* C7, amended: when add succeeds, get_one with the path add stored the
\* blueprint under (the argument, with ".yaml" appended unless it ends with
\* it) returns a Blueprint equivalent to the one added.
C7_AddThenGetStoredPath ==
    [][\A t \in Tasks :
          (pc[t] = "add_resume" /\ pc'[t] # pc[t])
          => NextGetReturns(WithYaml(arg[t].path), arg[t].bp)]_vars

\* C7 witness: an add called without the extension has succeeded and its
\* blueprint is cached under the path with the extension.
C7_Witness ==
    \E t \in Tasks :
        /\ Ended(t, "add") /\ result[t].kind = "return"
        /\ ~EndsWithYaml(arg[t].path)
        /\ WithYaml(arg[t].path) \in DOMAIN cache
        /\ cache[WithYaml(arg[t].path)] = arg[t].bp

\* C8: a get_one of a path that was removed, and not added since, begun after
\* the removal completed, does not return a Blueprint.
C8_RemovedPathYieldsNoBlueprint ==
    [][\A t \in Tasks :
          ( /\ Began(t) /\ op'[t] = "get" /\ pc'[t] = "idle"
            /\ arg'[t].path \in removed )
          => ~(result'[t].kind = "return" /\ IsBlueprint(result'[t].val))]_vars

\* The errors inputs_from_config is said to fail with.
TaxonomyErrors ==
    {"InvalidBlueprintInputs", "InvalidBlueprint", "FailedToLoad",
     "MissingPlaceholder"}

\* C9: inputs_from_config ends either returning a BlueprintInputs bound to a
\* Blueprint whose placeholders are all among the supplied input keys, or
\* raising one of the errors of the taxonomy.
C9_InputsReturnOrTaxonomyError ==
    \A t \in Tasks :
        Ended(t, "inputs") =>
            \/ /\ result[t].kind = "return"
               /\ result[t].val.kind = "BlueprintInputs"
               /\ IsBlueprint(result[t].val.blueprint)
               /\ result[t].val.blueprint.placeholders \subseteq result[t].val.inputs
            \/ /\ result[t].kind = "raise"
               /\ result[t].val.exc \in TaxonomyErrors

\* C10: a get_one never returns a Blueprint that was made before a reset of
\* the cache that came before the call.
C10_NoEntryFromBeforeReset ==
    \A t \in Tasks :
        (Ended(t, "get") /\ result[t].kind = "return" /\ IsBlueprint(result[t].val))
        => result[t].val.born >= started[t]

\* C11: every list_all call returns a map, and each entry of the map is a
\* Blueprint (from the cache, or loaded and cached) or the error object of a
\* failed load.
C11_ListReturnsBlueprintsAndErrors ==
    \A t \in Tasks :
        Ended(t, "list") =>
            /\ result[t].kind = "return"
            /\ \A p \in DOMAIN result[t].val :
                  IsBlueprint(result[t].val[p]) \/ IsError(result[t].val[p])

\* C15: a get_one call on a path that has a cache entry ends in its first step
\* with that entry and does not touch the lock, whoever holds it.
C15_CachedGetSkipsLock ==
    [][\A t \in Tasks :
          (Began(t) /\ op'[t] = "get" /\ arg'[t].path \in DOMAIN cache)
          => /\ pc'[t] = "idle"
             /\ result'[t] = Returned(cache[arg'[t].path], "fast")
             /\ queue' = queue]_vars

\* C15 witness: of the two calls begun so far one is a scan that still holds
\* the lock, the other a get_one that returned what the scan had cached.
C15_Witness ==
    \E t1, t2 \in Tasks :
        /\ calls = 2
        /\ pc[t2] \in {"scan_next", "scan_result"}
        /\ queue = <<t2>>
        /\ Ended(t1, "get") /\ result[t1].how = "fast"

\* C17: every Blueprint in the cache has the domain of the registry.
C17_CachedBlueprintsOfRegistryDomain ==
    \A p \in DOMAIN cache :
        IsBlueprint(cache[p]) => cache[p].domain = RegistryDomain

\* C19: when the unlink of a remove call finds no file, the call ends with
\* the error and the step leaves the cache as it was.
C19_FailedRemoveKeepsCache ==
    [][\A t \in Tasks :
          ( /\ pc[t] = "rm_job" /\ pc'[t] # pc[t]
            /\ disk[arg[t].path].kind = "NoFile" )
          => /\ pc'[t] = "idle"
             /\ result'[t] = Raised("FileNotFoundError", "job")
             /\ cache' = cache]_vars

\* C19 witness: a remove call found the file already unlinked by another
\* remove call, which has not resumed yet, and ended with the error; the cache
\* still holds the Blueprint of the path.
C19_Witness ==
    \E t, u \in Tasks :
        /\ Ended(t, "remove")
        /\ result[t] = Raised("FileNotFoundError", "job")
        /\ pc[u] = "rm_resume" /\ arg[u].path = arg[t].path
        /\ arg[t].path \in DOMAIN cache
        /\ IsBlueprint(cache[arg[t].path])

\* C18: the step that ends a load (of get_one or of list_all, with a value or
\* with an error) takes the task out of the lock's queue; while a call is in
\* progress some call can take a step; and every get_one and list_all call in
\* progress ends.
C18_LoadsReleaseLockAndCallsEnd ==
    /\ [][\A t \in Tasks :
             (pc[t] \in LoadingPcs /\ pc'[t] = "idle")
             => \A i \in 1..Len(queue') : queue'[i] # t]_vars
    /\ []((\E t \in Tasks : pc[t] # "idle")
             => \E t \in Tasks : ENABLED Continue(t))
    /\ \A t \in Tasks :
          (pc[t] # "idle" /\ op[t] \in {"get", "list"}) ~> (pc[t] = "idle")

\* C18 witness: a get_one that had to wait for the lock behind a scan has
\* ended with what it loaded or found.
C18_Witness ==
    \E t \in Tasks :
        /\ Ended(t, "get")
        /\ result[t].how = "recheck"

\* Method fn has been applied to its input.
Applied(fn) == pure.fn = fn /\ pure.out # NotApplied

\* C12: constructing a Blueprint from a schema-valid document whose body
\* uses a placeholder that is not a declared input fails with
\* InvalidBlueprint, and every Blueprint constructed has its placeholders
\* among its declared inputs.
C12_UndeclaredPlaceholderRejected ==
    Applied("init") =>
        LET d == pure.args.data
        IN  /\ (d.schemaOk /\ d.body \ d.input # {})
               => pure.out = Error("InvalidBlueprint")
            /\ IsBlueprint(pure.out)
               => pure.out.placeholders \subseteq pure.out.data.input

\* C12 witness: a schema-valid document of the expected domain with an
\* undeclared placeholder has been rejected.
C12_Witness ==
    /\ Applied("init")
    /\ pure.args.data.schemaOk
    /\ pure.args.data.domain = pure.args.expected_domain
    /\ pure.args.data.body \ pure.args.data.input # {}
    /\ pure.out = Error("InvalidBlueprint")

\* C13: construction with an expected domain other than the declared one
\* fails with InvalidBlueprint, whatever the placeholders; a Blueprint never
\* has another domain than the declared one; and with no expected domain a
\* schema-valid document with declared placeholders is accepted with its
\* declared domain.
C13_DomainMismatchRejected ==
    Applied("init") =>
        LET d == pure.args.data
            e == pure.args.expected_domain
        IN  /\ (e # NoDomain /\ d.domain # e)
               => pure.out = Error("InvalidBlueprint")
            /\ IsBlueprint(pure.out) => pure.out.domain = d.domain
            /\ (e = NoDomain /\ d.schemaOk /\ d.body \subseteq d.input)
               => IsBlueprint(pure.out)

\* C13 witness: a document with nothing wrong but its domain has been
\* rejected.
C13_Witness ==
    /\ Applied("init")
    /\ pure.args.data.schemaOk
    /\ pure.args.data.body \subseteq pure.args.data.input
    /\ pure.args.expected_domain = "automation"
    /\ pure.args.data.domain = "script"
    /\ pure.out = Error("InvalidBlueprint")

\* C14: when the inputs cover the placeholders, async_substitute returns a
\* dict whose keys are those of the configuration and of the blueprint
\* document but for use_blueprint and blueprint; a key of the document has the
\* document's value with its placeholder replaced, any other key the
\* configuration's value; the document and the configuration are as before.
C14_SubstituteMergesBlueprintOverConfig ==
    Applied("substitute") =>
        LET data == pure.args.data
            config == pure.args.config
            inputs == config[CONF_USE_BLUEPRINT].input
            r == pure.out
        IN  (\A k \in DOMAIN data :
                 data[k].kind = "input" => data[k].name \in DOMAIN inputs)
            => /\ r.out.kind = "Dict"
               /\ DOMAIN r.out.dict =
                     (DOMAIN config \cup DOMAIN data)
                        \ {CONF_USE_BLUEPRINT, CONF_BLUEPRINT}
               /\ \A k \in DOMAIN r.out.dict :
                     r.out.dict[k] =
                        IF k \in DOMAIN data
                        THEN IF data[k].kind = "input"
                             THEN inputs[data[k].name]
                             ELSE data[k]
                        ELSE config[k]
               /\ r.data = data
               /\ r.config = config

\* C14 witness: a document with a placeholder and a key that the
\* configuration has too has been substituted.
C14_Witness ==
    /\ Applied("substitute")
    /\ pure.out.out.kind = "Dict"
    /\ "alias" \in DOMAIN pure.args.data
    /\ "alias" \in DOMAIN pure.args.config
    /\ \E k \in DOMAIN pure.args.data : pure.args.data[k].kind = "input"

\* Version a is b or later.
VersionAtLeast(a, b) == a[1] > b[1] \/ (a[1] = b[1] /\ a[2] >= b[2])

\* C16: validate returns None when the metadata declares no minimum version
\* or the running version is the minimum or later, and a non-empty list
\* otherwise; the metadata is as before.
C16_ValidateNoneIffCompatible ==
    Applied("validate") =>
        LET m == pure.args.metadata
            declared == /\ CONF_HOMEASSISTANT \in DOMAIN m
                        /\ CONF_MIN_VERSION \in DOMAIN m[CONF_HOMEASSISTANT]
            compatible ==
                declared => VersionAtLeast(pure.args.running,
                               m[CONF_HOMEASSISTANT][CONF_MIN_VERSION])
        IN  /\ compatible => pure.out.out = None
            /\ ~compatible => /\ pure.out.out.kind = "List"
                              /\ Len(pure.out.out.items) > 0
            /\ pure.out.metadata = m

\* C16 witness: the running version is exactly the declared minimum and
\* validate returned None.
C16_Witness ==
    /\ Applied("validate")
    /\ CONF_HOMEASSISTANT \in DOMAIN pure.args.metadata
    /\ CONF_MIN_VERSION \in DOMAIN pure.args.metadata[CONF_HOMEASSISTANT]
    /\ pure.args.metadata[CONF_HOMEASSISTANT][CONF_MIN_VERSION]
          = pure.args.running
    /\ pure.out.out = None

\* Entity e's callback is registered with its device.
Registered(e) ==
    \E i \in 1..Len(deconz.callbacks[deconz.dev[e]]) :
        deconz.callbacks[deconz.dev[e]][i] = e

====
